---- MODULE Spec2Model ----
(***************************************************************************)
(* Model of src/src/extract_to_csv.py: the single-pass transcript scanner  *)
(* parse_out_file_stream and the batch driver main / iter_out_files; and   *)
(* of src/src/gen_files_with_sbs.py: the splicing of constraint snippets   *)
(* into a base LP file.                                                    *)
(*                                                                         *)
(* A line of a transcript is a sequence of tokens.  Adjacent tokens are    *)
(* separated by white space; a "ws" token is an extra run of white space   *)
(* (what str.strip removes at the ends of a line).  Each token kind is one *)
(* textual shape the regular expressions of the program distinguish:       *)
(*   tl    the words  Time limit reached                                   *)
(*   opt   the words  Optimal solution found                               *)
(*   best  Best objective <v1>, best bound <v2>, gap <v3>%                 *)
(*   expl  Explored <v1> nodes (<v2> simplex iterations) in <v3> seconds   *)
(*         (<v4> work units)                                               *)
(*   hdr   Expl Unexpl | ... Incumbent BestBd Gap | It/Node Time           *)
(*   int   a run of digits                                                 *)
(*   H     the letter H alone                                              *)
(*   pct   <number>%                                                       *)
(*   sep   a run made only of the characters | - =                         *)
(*   word  any other text                                                  *)
(***************************************************************************)
EXTENDS Naturals, Sequences, FiniteSets, TLC

VARIABLES
    \* parse_out_file_stream: the locals of one scan
    status, best_obj, gap, nodes, simplex_iters, runtime, work_units,
    initial_gap, saw_table_header, captured_initial_gap,
    \* the lines of f consumed so far, the position of the scan, its result
    f_read, pc, record,
    \* main: the file system it sees and the output it produces
    mpc, in_path, scan_order, files, out_dir, out_csv, written,
    \* gen_files_with_sbs.main: its inputs, its locals and the files it wrote
    gpc, base_lp, sbs_dir, gen_dir, base_lines, insert_at, snippet_files,
    snippets_done, gen_out

scan_vars == <<status, best_obj, gap, nodes, simplex_iters, runtime, work_units,
               initial_gap, saw_table_header, captured_initial_gap,
               f_read, pc, record>>
main_vars == <<mpc, in_path, scan_order, files, out_dir, out_csv, written>>
gen_vars == <<gpc, base_lp, sbs_dir, gen_dir, base_lines, insert_at,
              snippet_files, snippets_done, gen_out>>
vars == <<scan_vars, main_vars, gen_vars>>

\* ------------------------------------------------------------------ bounds

\* Longest transcript scanned line by line.
MaxLines == 3

\* Most transcript files (names ending in .out) in the input directory.
MaxFiles == 3

\* Most stems among the names of the snippet files.
MaxSnippetStems == 2

\* Longest transcript tried when looking for a record with one field present
\* and another absent.
MaxProbeLines == 2

\* ------------------------------------------------------------------ tokens

Tok(k, v) == [k |-> k, v |-> v]
TL == Tok("tl", <<>>)
OPT == Tok("opt", <<>>)
Hdr == Tok("hdr", <<>>)
HTok == Tok("H", <<>>)
Sep == Tok("sep", <<>>)
Ws == Tok("ws", <<>>)
Word == Tok("word", <<>>)
Int(d) == Tok("int", <<d>>)
Pct(p) == Tok("pct", <<p>>)
Best(obj, bound, g) == Tok("best", <<obj, bound, g>>)
Expl(n, s, r, w) == Tok("expl", <<n, s, r, w>>)

Min(S) == CHOOSE x \in S : \A y \in S : x <= y
Max(S) == CHOOSE x \in S : \A y \in S : x >= y

\* The positions of the tokens of kind k in ln.
At(ln, k) == {i \in 1..Len(ln) : ln[i].k = k}

\* re.search of a pattern whose text is one token of kind k: the groups of the
\* leftmost match, << >> for no match.
Search(ln, k) == IF At(ln, k) = {} THEN <<>> ELSE ln[Min(At(ln, k))].v

\* ------------------------------------------------------- pattern library

RE_TIME_LIMIT(ln) == At(ln, "tl") # {}
RE_OPTIMAL(ln) == At(ln, "opt") # {}
RE_BEST_LINE(ln) == Search(ln, "best")
RE_EXPLORED(ln) == Search(ln, "expl")
RE_TABLE_HEADER(ln) == At(ln, "hdr") # {}

\* str.strip(): drop the white space at both ends.
Strip(ln) ==
    LET I == {i \in 1..Len(ln) : ln[i].k # "ws"}
    IN  IF I = {} THEN <<>> ELSE SubSeq(ln, Min(I), Max(I))

\* s.replace("|", "").replace("-", "").replace("=", "").strip()
DropSeparators(s) == Strip(SelectSeq(s, LAMBDA t : t.k # "sep"))

\* ^(H\s+)?\d+\s+\d+\s+ matched at the start of the stripped line: the second
\* integer must be followed by white space, hence by one more token.
RE_PROGRESS_ROW_START(s) ==
    \/ Len(s) >= 3 /\ s[1].k = "int" /\ s[2].k = "int"
    \/ Len(s) >= 4 /\ s[1].k = "H" /\ s[2].k = "int" /\ s[3].k = "int"

\* RE_PERCENT.findall(s): every <number>% of the line in order, the one inside
\* a best-objective phrase included.
PercentOf(t) ==
    IF t.k = "pct" THEN <<t.v[1]>>
    ELSE IF t.k = "best" THEN <<t.v[3] \o "%">>
    ELSE <<>>
RECURSIVE RE_PERCENT(_)
RE_PERCENT(s) == IF s = <<>> THEN <<>> ELSE PercentOf(Head(s)) \o RE_PERCENT(Tail(s))

\* ------------------------------------------------------ transcript lines

\* The lines a transcript is made of: one line or more of every shape the
\* scanner tells apart.
Lines ==
    { <<Ws>>,                                               \* blank line
      <<Ws, Sep, Sep>>,                                     \* separator line
      <<Hdr>>,
      <<Int("0"), Int("0"), Hdr, Pct("7.7%")>>,             \* header, row-shaped
      <<Hdr, TL>>,                                          \* header and status
      <<Word, TL>>,
      <<OPT, Word>>,
      <<OPT, TL>>,
      <<Best("150", "150", "0.0000")>>,
      <<Best("175", "170", "0.0000"), Best("1", "1", "3.0000")>>,
      <<Best("160", "160", "0.000")>>,
      <<Expl("1", "3672", "0.44", "0.84")>>,
      <<Expl("7", "90", "1.50", "2.10"), Best("300", "290", "3.3333")>>,
      <<Ws, Int("0"), Int("0"), Word, Pct("3.2%"), Pct("8.5%"), Word>>,
      <<HTok, Int("0"), Int("2"), Pct("4.1%")>>,
      <<Int("5"), Int("3"), Word>>,                         \* row, no percentage
      <<Int("0"), Int("0"), Best("200", "190", "5.0000")>>, \* row and summary
      <<Int("9"), Pct("6.6%")>> }                           \* not a row

\* ------------------------------------------------ parse_out_file_stream

\* The locals before the first line.
ScanInit ==
    [ status |-> "", best_obj |-> "", gap |-> "", nodes |-> "",
      simplex_iters |-> "", runtime |-> "", work_units |-> "",
      initial_gap |-> "", saw_table_header |-> FALSE,
      captured_initial_gap |-> FALSE ]

\* Mutant of NextStatus: the precedence guards are missing, a later optimal
\* phrase overwrites the time limit.
NextStatus_NoPrecedence(st, ln) ==
    IF RE_TIME_LIMIT(ln) THEN "Time limit reached"
    ELSE IF RE_OPTIMAL(ln) THEN "Optimal solution found"
    ELSE st.status

\* status (time limit takes precedence)
NextStatus(st, ln) ==
    IF st.status # "Time limit reached"
    THEN IF RE_TIME_LIMIT(ln) THEN "Time limit reached"
         ELSE IF st.status = "" /\ RE_OPTIMAL(ln) THEN "Optimal solution found"
         ELSE st.status
    ELSE st.status

\* Mutant of NextGap: the first match is kept, later ones are ignored.
NextGap_FirstWins(st, ln) ==
    LET m == RE_BEST_LINE(ln)
    IN  IF m # <<>> /\ st.gap = "" THEN m[3] \o "%" ELSE st.gap

\* Mutant of NextGap: a zero gap is not recorded.
NextGap_SkipZero(st, ln) ==
    LET m == RE_BEST_LINE(ln)
    IN  IF m # <<>> /\ m[3] # "0.0000" THEN m[3] \o "%" ELSE st.gap

\* gap = f"{gap_str}%" on a match
NextGap(st, ln) ==
    LET m == RE_BEST_LINE(ln)
    IN  IF m # <<>> THEN m[3] \o "%" ELSE st.gap

\* Mutant of NextBestObj: group 2 (the bound) is read instead of group 1.
NextBestObj_Bound(st, ln) ==
    LET m == RE_BEST_LINE(ln)
    IN  IF m # <<>> THEN (IF m[3] = "0.0000" THEN m[2] ELSE "") ELSE st.best_obj

\* Mutant of NextBestObj: a non-zero gap leaves the objective as it was.
NextBestObj_NoClear(st, ln) ==
    LET m == RE_BEST_LINE(ln)
    IN  IF m # <<>> /\ m[3] = "0.0000" THEN m[1] ELSE st.best_obj

\* best_obj = obj_str if gap_str == "0.0000" else ""
NextBestObj(st, ln) ==
    LET m == RE_BEST_LINE(ln)
    IN  IF m # <<>> THEN (IF m[3] = "0.0000" THEN m[1] ELSE "") ELSE st.best_obj

\* Mutant of NextExplored: the two counts and the two times come from separate
\* matches, and the second one fails.
NextExplored_Partial(st, ln) ==
    LET m == RE_EXPLORED(ln)
    IN  IF m # <<>>
        THEN [nodes |-> m[1], simplex_iters |-> m[2], runtime |-> st.runtime,
              work_units |-> st.work_units]
        ELSE [nodes |-> st.nodes, simplex_iters |-> st.simplex_iters,
              runtime |-> st.runtime, work_units |-> st.work_units]

\* explored stats: the four groups of one match
NextExplored(st, ln) ==
    LET m == RE_EXPLORED(ln)
    IN  IF m # <<>>
        THEN [nodes |-> m[1], simplex_iters |-> m[2], runtime |-> m[3],
              work_units |-> m[4]]
        ELSE [nodes |-> st.nodes, simplex_iters |-> st.simplex_iters,
              runtime |-> st.runtime, work_units |-> st.work_units]

\* Mutant of NextInitialGap: the first percentage of the row is taken.
NextInitialGap_FirstPercent(st, ln) ==
    LET same == [initial_gap |-> st.initial_gap,
                 saw_table_header |-> st.saw_table_header,
                 captured_initial_gap |-> st.captured_initial_gap]
        s == Strip(ln)
        percents == RE_PERCENT(s)
    IN  IF st.captured_initial_gap THEN same
        ELSE IF ~st.saw_table_header
        THEN IF RE_TABLE_HEADER(ln)
             THEN [same EXCEPT !.saw_table_header = TRUE]
             ELSE same
        ELSE IF s = <<>> THEN same
        ELSE IF DropSeparators(s) = <<>> THEN same
        ELSE IF ~RE_PROGRESS_ROW_START(s) THEN same
        ELSE [same EXCEPT
                !.initial_gap = IF percents # <<>> THEN percents[1] ELSE "",
                !.captured_initial_gap = TRUE]

\* Mutant of NextInitialGap: the test of captured_initial_gap is missing, every
\* row after the header is captured.
NextInitialGap_Recapture(st, ln) ==
    LET same == [initial_gap |-> st.initial_gap,
                 saw_table_header |-> st.saw_table_header,
                 captured_initial_gap |-> st.captured_initial_gap]
        s == Strip(ln)
        percents == RE_PERCENT(s)
    IN  IF ~st.saw_table_header
        THEN IF RE_TABLE_HEADER(ln)
             THEN [same EXCEPT !.saw_table_header = TRUE]
             ELSE same
        ELSE IF s = <<>> THEN same
        ELSE IF DropSeparators(s) = <<>> THEN same
        ELSE IF ~RE_PROGRESS_ROW_START(s) THEN same
        ELSE [same EXCEPT
                !.initial_gap = IF percents # <<>>
                                THEN percents[Len(percents)] ELSE "",
                !.captured_initial_gap = TRUE]

\* Mutant of NextInitialGap: the continue after the header test is missing,
\* the header line itself goes on to the row test.
NextInitialGap_NoContinue(st, ln) ==
    LET same == [initial_gap |-> st.initial_gap,
                 saw_table_header |-> st.saw_table_header,
                 captured_initial_gap |-> st.captured_initial_gap]
        seen == [same EXCEPT
                    !.saw_table_header =
                        st.saw_table_header \/ RE_TABLE_HEADER(ln)]
        s == Strip(ln)
        percents == RE_PERCENT(s)
    IN  IF st.captured_initial_gap THEN same
        ELSE IF ~seen.saw_table_header THEN same
        ELSE IF s = <<>> THEN seen
        ELSE IF DropSeparators(s) = <<>> THEN seen
        ELSE IF ~RE_PROGRESS_ROW_START(s) THEN seen
        ELSE [seen EXCEPT
                !.initial_gap = IF percents # <<>>
                                THEN percents[Len(percents)] ELSE "",
                !.captured_initial_gap = TRUE]

\* initial gap: the table header, then the first data row after it.  The
\* result is the three locals this part of the loop body writes.
NextInitialGap(st, ln) ==
    LET same == [initial_gap |-> st.initial_gap,
                 saw_table_header |-> st.saw_table_header,
                 captured_initial_gap |-> st.captured_initial_gap]
        s == Strip(ln)
        percents == RE_PERCENT(s)
    IN  IF st.captured_initial_gap THEN same
        ELSE IF ~st.saw_table_header
        THEN IF RE_TABLE_HEADER(ln)
             THEN [same EXCEPT !.saw_table_header = TRUE]
             ELSE same
        ELSE IF s = <<>> THEN same
        ELSE IF DropSeparators(s) = <<>> THEN same
        ELSE IF ~RE_PROGRESS_ROW_START(s) THEN same
        ELSE [same EXCEPT
                !.initial_gap = IF percents # <<>>
                                THEN percents[Len(percents)] ELSE "",
                !.captured_initial_gap = TRUE]

\* Mutant of ScanLine: the initial-gap part comes first in the loop body, and
\* its continue statements skip the summary patterns for that line.
ScanLine_GapFirst(st, ln) ==
    LET e == NextExplored(st, ln)
        g == NextInitialGap(st, ln)
    IN  IF ~st.captured_initial_gap /\ ~g.captured_initial_gap
        THEN [st EXCEPT !.saw_table_header = g.saw_table_header]
        ELSE [ status |-> NextStatus(st, ln),
               best_obj |-> NextBestObj(st, ln),
               gap |-> NextGap(st, ln),
               nodes |-> e.nodes,
               simplex_iters |-> e.simplex_iters,
               runtime |-> e.runtime,
               work_units |-> e.work_units,
               initial_gap |-> g.initial_gap,
               saw_table_header |-> g.saw_table_header,
               captured_initial_gap |-> g.captured_initial_gap ]

\* One iteration of "for ln in f".
ScanLine(st, ln) ==
    LET e == NextExplored(st, ln)
        g == NextInitialGap(st, ln)
    IN  [ status |-> NextStatus(st, ln),
          best_obj |-> NextBestObj(st, ln),
          gap |-> NextGap(st, ln),
          nodes |-> e.nodes,
          simplex_iters |-> e.simplex_iters,
          runtime |-> e.runtime,
          work_units |-> e.work_units,
          initial_gap |-> g.initial_gap,
          saw_table_header |-> g.saw_table_header,
          captured_initial_gap |-> g.captured_initial_gap ]

\* The dictionary returned after the last line.
MakeRecord(name, st) ==
    [ filename |-> name, status |-> st.status, objective |-> st.best_obj,
      gap |-> st.gap, work_units |-> st.work_units,
      runtime_seconds |-> st.runtime, initial_gap |-> st.initial_gap,
      simplex_iters |-> st.simplex_iters, nodes |-> st.nodes ]

\* The whole loop over the lines of one file.
RECURSIVE ScanFrom(_, _)
ScanFrom(st, lines) ==
    IF lines = <<>> THEN st ELSE ScanFrom(ScanLine(st, Head(lines)), Tail(lines))

parse_out_file_stream(name, lines) == MakeRecord(name, ScanFrom(ScanInit, lines))

\* The locals of the running scan as one value.
Locals ==
    [ status |-> status, best_obj |-> best_obj, gap |-> gap, nodes |-> nodes,
      simplex_iters |-> simplex_iters, runtime |-> runtime,
      work_units |-> work_units, initial_gap |-> initial_gap,
      saw_table_header |-> saw_table_header,
      captured_initial_gap |-> captured_initial_gap ]

SetLocals(st) ==
    /\ status' = st.status
    /\ best_obj' = st.best_obj
    /\ gap' = st.gap
    /\ nodes' = st.nodes
    /\ simplex_iters' = st.simplex_iters
    /\ runtime' = st.runtime
    /\ work_units' = st.work_units
    /\ initial_gap' = st.initial_gap
    /\ saw_table_header' = st.saw_table_header
    /\ captured_initial_gap' = st.captured_initial_gap

SetLocalsInit ==
    /\ status = ScanInit.status
    /\ best_obj = ScanInit.best_obj
    /\ gap = ScanInit.gap
    /\ nodes = ScanInit.nodes
    /\ simplex_iters = ScanInit.simplex_iters
    /\ runtime = ScanInit.runtime
    /\ work_units = ScanInit.work_units
    /\ initial_gap = ScanInit.initial_gap
    /\ saw_table_header = ScanInit.saw_table_header
    /\ captured_initial_gap = ScanInit.captured_initial_gap

\* The name of the file scanned line by line.
ScannedName == <<1, ".out">>

\* No dictionary returned yet.
NoRecord == MakeRecord(<<0, "">>, ScanInit)

\* The loop body on the next line of f.
ReadLine(ln) ==
    /\ pc = "scan"
    /\ Len(f_read) < MaxLines
    /\ SetLocals(ScanLine(Locals, ln))
    /\ f_read' = Append(f_read, ln)
    /\ UNCHANGED <<pc, record>>
    /\ UNCHANGED main_vars
    /\ UNCHANGED gen_vars

\* Mutant of Return: a scan that saw no table header raises instead of
\* returning.
Return_NeedsHeader ==
    /\ pc = "scan"
    /\ saw_table_header
    /\ pc' = "returned"
    /\ record' = MakeRecord(ScannedName, Locals)
    /\ UNCHANGED <<status, best_obj, gap, nodes, simplex_iters, runtime,
                   work_units, initial_gap, saw_table_header,
                   captured_initial_gap, f_read>>
    /\ UNCHANGED main_vars
    /\ UNCHANGED gen_vars

\* f is exhausted: the return statement.
Return ==
    /\ pc = "scan"
    /\ pc' = "returned"
    /\ record' = MakeRecord(ScannedName, Locals)
    /\ UNCHANGED <<status, best_obj, gap, nodes, simplex_iters, runtime,
                   work_units, initial_gap, saw_table_header,
                   captured_initial_gap, f_read>>
    /\ UNCHANGED main_vars
    /\ UNCHANGED gen_vars

\* gen_files_with_sbs is not running.
GenIdle ==
    /\ gpc = "idle"
    /\ base_lp = [kind |-> "missing", lines |-> <<>>]
    /\ sbs_dir = [kind |-> "missing", entries |-> {}]
    /\ gen_dir = FALSE
    /\ base_lines = <<>>
    /\ insert_at = 0
    /\ snippet_files = <<>>
    /\ snippets_done = 0
    /\ gen_out = {}

MainIdle ==
    /\ mpc = "idle"
    /\ in_path = [kind |-> "missing", name |-> <<0, "">>, entries |-> {}]
    /\ scan_order = <<>>
    /\ files = <<>>
    /\ out_dir = FALSE
    /\ out_csv = "absent"
    /\ written = <<>>

ScanStart ==
    /\ SetLocalsInit
    /\ f_read = <<>>
    /\ pc = "scan"
    /\ record = NoRecord

Init == ScanStart /\ MainIdle /\ GenIdle

Next ==
    \/ \E ln \in Lines : ReadLine(ln)
    \/ Return

Spec == Init /\ [][Next]_vars

\* ------------------------------------------------------------------ main

\* A file name is <<stem, extension>>: the text "run<stem><extension>".  Names
\* with the same extension sort by their stem.
Name(stem, ext) == <<stem, ext>>
EndsWithOut(name) == name[2] = ".out"

\* The entries a directory may hold: transcript files, a file of another
\* kind, and a subdirectory whose name ends in .out.
DirEntries ==
    {[name |-> Name(i, ".out"), is_file |-> TRUE] : i \in 1..MaxFiles}
        \cup {[name |-> Name(0, ".txt"), is_file |-> TRUE],
              [name |-> Name(0, ".out"), is_file |-> FALSE]}

\* What in_path may be: nothing, one file of any name, a directory.
InPaths ==
    {[kind |-> "missing", name |-> Name(0, ""), entries |-> {}]}
        \cup {[kind |-> "file", name |-> n, entries |-> {}] :
                n \in {Name(1, ".out"), Name(2, ".txt")}}
        \cup {[kind |-> "dir", name |-> Name(0, ""), entries |-> E] :
                E \in SUBSET DirEntries}

\* The lines of the file of a given name.  Files 1 and 3 hold the same
\* transcript, one that sets every field; file 2 holds no matching line.
FileLines(name) ==
    CASE name[1] \in {1, 3} ->
            << <<Hdr>>, <<HTok, Int("0"), Int("2"), Pct("4.1%")>>, <<OPT, TL>>,
               <<Expl("1", "3672", "0.44", "0.84")>>,
               <<Best("150", "150", "0.0000")>> >>
      [] name[1] = 2 -> << <<Word, Pct("9.9%")>> >>
      [] OTHER -> << <<OPT, Word>>, <<Best("200", "190", "5.0000")>> >>

\* The orders in which os.scandir may return the entries E.
ScanOrders(E) ==
    {o \in [1..Cardinality(E) -> E] :
        \A i, j \in 1..Cardinality(E) : i # j => o[i] # o[j]}

\* iter_out_files on a directory whose entries come in the order o: the
\* paths of the regular files whose name ends in .out, in that order.
RECURSIVE OutFilesOf(_)
OutFilesOf(o) ==
    IF o = <<>> THEN <<>>
    ELSE (IF Head(o).is_file /\ EndsWithOut(Head(o).name)
          THEN <<Head(o).name>> ELSE <<>>) \o OutFilesOf(Tail(o))

fieldnames ==
    <<"filename", "status", "objective", "gap", "work_units", "runtime_seconds",
      "initial_gap", "simplex_iters", "nodes">>

\* csv.DictWriter.writerow: the values of the dictionary in column order.
Row(rec) == [i \in 1..Len(fieldnames) |-> rec[fieldnames[i]]]

\* files = list(iter_out_files(in_path))
ListFiles ==
    /\ mpc = "start"
    /\ \/ /\ in_path.kind = "file"
          /\ files' = <<in_path.name>>
          /\ mpc' = "check"
          /\ UNCHANGED scan_order
       \/ /\ in_path.kind = "missing"
          /\ mpc' = "error"
          /\ UNCHANGED <<files, scan_order>>
       \/ /\ in_path.kind = "dir"
          /\ \E o \in ScanOrders(in_path.entries) :
                /\ scan_order' = o
                /\ files' = OutFilesOf(o)
          /\ mpc' = "check"
    /\ UNCHANGED <<in_path, out_dir, out_csv, written>>
    /\ UNCHANGED scan_vars
    /\ UNCHANGED gen_vars

\* Mutant of CheckFiles: the test for an empty list is missing.
CheckFiles_NoTest ==
    /\ mpc = "check"
    /\ mpc' = "mkdir"
    /\ UNCHANGED <<in_path, scan_order, files, out_dir, out_csv, written>>
    /\ UNCHANGED scan_vars
    /\ UNCHANGED gen_vars

\* if not files: raise SystemExit
CheckFiles ==
    /\ mpc = "check"
    /\ mpc' = IF files = <<>> THEN "error" ELSE "mkdir"
    /\ UNCHANGED <<in_path, scan_order, files, out_dir, out_csv, written>>
    /\ UNCHANGED scan_vars
    /\ UNCHANGED gen_vars

\* out_csv.parent.mkdir(parents=True, exist_ok=True)
MakeParent ==
    /\ mpc = "mkdir"
    /\ out_dir' = TRUE
    /\ mpc' = "open"
    /\ UNCHANGED <<in_path, scan_order, files, out_csv, written>>
    /\ UNCHANGED scan_vars
    /\ UNCHANGED gen_vars

\* out_csv.open("w"): the file is created or truncated
OpenCsv ==
    /\ mpc = "open"
    /\ out_csv' = "open"
    /\ written' = <<>>
    /\ mpc' = "header"
    /\ UNCHANGED <<in_path, scan_order, files, out_dir>>
    /\ UNCHANGED scan_vars
    /\ UNCHANGED gen_vars

\* w.writeheader()
WriteHeader ==
    /\ mpc = "header"
    /\ written' = Append(written, fieldnames)
    /\ mpc' = "rows"
    /\ UNCHANGED <<in_path, scan_order, files, out_dir, out_csv>>
    /\ UNCHANGED scan_vars
    /\ UNCHANGED gen_vars

\* for p in files: w.writerow(parse_out_file_stream(p))
WriteRow ==
    /\ mpc = "rows"
    /\ Len(written) <= Len(files)
    /\ LET p == files[Len(written)]
       IN  written' = Append(written, Row(parse_out_file_stream(p, FileLines(p))))
    /\ UNCHANGED <<mpc, in_path, scan_order, files, out_dir, out_csv>>
    /\ UNCHANGED scan_vars
    /\ UNCHANGED gen_vars

\* Mutant of Finish: the loop stops after a row whose record is empty.
Finish_StopOnEmpty ==
    /\ mpc = "rows"
    /\ \/ Len(written) > Len(files)
       \/ /\ Len(written) > 1
          /\ \A c \in 2..Len(fieldnames) : written[Len(written)][c] = ""
    /\ out_csv' = "closed"
    /\ mpc' = "done"
    /\ UNCHANGED <<in_path, scan_order, files, out_dir, written>>
    /\ UNCHANGED scan_vars
    /\ UNCHANGED gen_vars

\* The loop and the with block end: the file is closed.
Finish ==
    /\ mpc = "rows"
    /\ Len(written) > Len(files)
    /\ out_csv' = "closed"
    /\ mpc' = "done"
    /\ UNCHANGED <<in_path, scan_order, files, out_dir, written>>
    /\ UNCHANGED scan_vars
    /\ UNCHANGED gen_vars

InitMain ==
    /\ ScanStart
    /\ mpc = "start"
    /\ in_path \in InPaths
    /\ scan_order = <<>>
    /\ files = <<>>
    /\ out_dir = FALSE
    /\ out_csv = "absent"
    /\ written = <<>>
    /\ GenIdle

NextMain ==
    \/ ListFiles
    \/ CheckFiles
    \/ MakeParent
    \/ OpenCsv
    \/ WriteHeader
    \/ WriteRow
    \/ Finish

SpecMain == InitMain /\ [][NextMain]_vars

\* -------------------------------------- main, with the scans line by line

\* The file the loop of main is at.
CurrentFile == files[Len(written)]

\* Mutant of CallScan: status lives outside the function and is not reset.
CallScan_StatusKept ==
    /\ mpc = "rows"
    /\ pc = "idle"
    /\ Len(written) <= Len(files)
    /\ SetLocals([ScanInit EXCEPT !.status = status])
    /\ f_read' = <<>>
    /\ pc' = "scan"
    /\ UNCHANGED record
    /\ UNCHANGED main_vars
    /\ UNCHANGED gen_vars

\* parse_out_file_stream(p) is called: fresh locals, the file is opened.
CallScan ==
    /\ mpc = "rows"
    /\ pc = "idle"
    /\ Len(written) <= Len(files)
    /\ SetLocals(ScanInit)
    /\ f_read' = <<>>
    /\ pc' = "scan"
    /\ UNCHANGED record
    /\ UNCHANGED main_vars
    /\ UNCHANGED gen_vars

\* The loop body on the next line of the current file.
ReadFileLine ==
    /\ mpc = "rows"
    /\ pc = "scan"
    /\ Len(f_read) < Len(FileLines(CurrentFile))
    /\ SetLocals(ScanLine(Locals, FileLines(CurrentFile)[Len(f_read) + 1]))
    /\ f_read' = Append(f_read, FileLines(CurrentFile)[Len(f_read) + 1])
    /\ UNCHANGED <<pc, record>>
    /\ UNCHANGED main_vars
    /\ UNCHANGED gen_vars

\* The current file is exhausted: the return statement.
ReturnRecord ==
    /\ mpc = "rows"
    /\ pc = "scan"
    /\ Len(f_read) = Len(FileLines(CurrentFile))
    /\ pc' = "returned"
    /\ record' = MakeRecord(CurrentFile, Locals)
    /\ UNCHANGED <<status, best_obj, gap, nodes, simplex_iters, runtime,
                   work_units, initial_gap, saw_table_header,
                   captured_initial_gap, f_read>>
    /\ UNCHANGED main_vars
    /\ UNCHANGED gen_vars

\* w.writerow(...) of the returned dictionary
WriteRecord ==
    /\ mpc = "rows"
    /\ pc = "returned"
    /\ written' = Append(written, Row(record))
    /\ pc' = "idle"
    /\ UNCHANGED <<status, best_obj, gap, nodes, simplex_iters, runtime,
                   work_units, initial_gap, saw_table_header,
                   captured_initial_gap, f_read, record>>
    /\ UNCHANGED <<mpc, in_path, scan_order, files, out_dir, out_csv>>
    /\ UNCHANGED gen_vars

InitBatch ==
    /\ SetLocalsInit
    /\ f_read = <<>>
    /\ pc = "idle"
    /\ record = NoRecord
    /\ mpc = "start"
    /\ in_path \in InPaths
    /\ scan_order = <<>>
    /\ files = <<>>
    /\ out_dir = FALSE
    /\ out_csv = "absent"
    /\ written = <<>>
    /\ GenIdle

NextBatch ==
    \/ ListFiles
    \/ CheckFiles
    \/ MakeParent
    \/ OpenCsv
    \/ WriteHeader
    \/ CallScan
    \/ ReadFileLine
    \/ ReturnRecord
    \/ WriteRecord
    \/ Finish

SpecBatch == InitBatch /\ [][NextBatch]_vars

\* --------------------------------------------------- gen_files_with_sbs

\* A line of an LP file or of a snippet, by what the program asks of it:
\*   kind  "binary"      the line is the word binary in any letter case,
\*                       between optional white space;
\*         "subject to"  likewise the words subject to;
\*         "blank"       white space only;
\*         "comment"     optional white space, a backslash, any text;
\*         "text"        anything else;
\*   lead  the line starts with white space;
\*   caps  the line holds capital letters;
\*   nl    the line ends with a newline;
\*   body  the text of the line other than the above.
LpLine(kind, lead, caps, nl, body) ==
    [kind |-> kind, lead |-> lead, caps |-> caps, nl |-> nl, body |-> body]

\* ln.strip().lower(): white space, newline and letter case are gone.
StripLower(ln) ==
    CASE ln.kind \in {"binary", "subject to"} -> ln.kind
      [] ln.kind = "blank" -> ""
      [] ln.kind = "comment" -> "\\" \o ln.body
      [] OTHER -> ln.body

\* ln.strip() is empty.
StripIsEmpty(ln) == ln.kind = "blank"

\* ln.lstrip().startswith("\\")
StartsWithBackslash(ln) == ln.kind = "comment"

\* c.rstrip("\n") + "\n": the line ends with exactly one newline.
WithNewline(ln) == [ln EXCEPT !.nl = TRUE]

\* The string "\n".
NewlineOnly == LpLine("blank", FALSE, FALSE, TRUE, "")

\* str.splitlines(): the lines without their newlines.
RECURSIVE SplitLines(_)
SplitLines(ls) ==
    IF ls = <<>> THEN <<>>
    ELSE <<[Head(ls) EXCEPT !.nl = FALSE]>> \o SplitLines(Tail(ls))

\* The base LP files tried: one with a single Binary header, one with two
\* (the first indented and in lower case) and a last line without newline,
\* and one without any.
BaseFiles ==
    { << LpLine("text", FALSE, TRUE, TRUE, "minimize"),
         LpLine("subject to", FALSE, TRUE, TRUE, ""),
         LpLine("text", TRUE, FALSE, TRUE, "c0: x >= 0"),
         LpLine("binary", FALSE, TRUE, TRUE, ""),
         LpLine("text", TRUE, FALSE, TRUE, "x"),
         LpLine("text", FALSE, TRUE, TRUE, "end") >>,
      << LpLine("text", FALSE, TRUE, TRUE, "minimize"),
         LpLine("binary", TRUE, FALSE, TRUE, ""),
         LpLine("text", TRUE, FALSE, TRUE, "x"),
         LpLine("binary", FALSE, TRUE, TRUE, ""),
         LpLine("text", FALSE, TRUE, FALSE, "end") >>,
      << LpLine("text", FALSE, TRUE, TRUE, "minimize"),
         LpLine("text", FALSE, TRUE, TRUE, "binaries"),
         LpLine("text", FALSE, TRUE, TRUE, "end") >> }

\* What base_lp_file may name: nothing, or one of the base files.
BaseLps ==
    {[kind |-> "missing", lines |-> <<>>]}
        \cup {[kind |-> "file", lines |-> b] : b \in BaseFiles}

\* The entries sbs_dir may hold: for each stem a .lp and a .txt file, and a
\* subdirectory.
SnippetEntries ==
    {[name |-> Name(i, x), is_file |-> TRUE] :
        i \in 1..MaxSnippetStems, x \in {".lp", ".txt"}}
        \cup {[name |-> Name(0, ".lp"), is_file |-> FALSE]}

\* What sbs_dir may name: nothing, or a directory.
SbsDirs ==
    {[kind |-> "missing", entries |-> {}]}
        \cup {[kind |-> "dir", entries |-> E] : E \in SUBSET SnippetEntries}

\* The text of the snippet file of a given name.
SnippetText(name) ==
    CASE name = Name(1, ".lp") ->
            << LpLine("subject to", FALSE, TRUE, TRUE, ""),
               LpLine("text", TRUE, FALSE, TRUE, "c1: x <= 1"),
               LpLine("blank", TRUE, FALSE, TRUE, ""),
               LpLine("comment", FALSE, FALSE, TRUE, " note"),
               LpLine("text", TRUE, FALSE, FALSE, "c2: x <= 2") >>
      [] name = Name(1, ".txt") ->
            << LpLine("text", TRUE, FALSE, TRUE, "c3: x <= 3"),
               LpLine("subject to", FALSE, FALSE, TRUE, "") >>
      [] name = Name(2, ".lp") ->
            << LpLine("comment", TRUE, FALSE, TRUE, " note"),
               LpLine("blank", FALSE, FALSE, TRUE, "") >>
      [] name = Name(2, ".txt") -> <<>>
      [] OTHER -> << LpLine("text", FALSE, FALSE, TRUE, "c4: x <= 4") >>

\* Path.stem: the name without its extension.
Stem(name) == name[1]

\* The order of two paths of one directory: by stem, then by extension
\* (".lp" is before ".txt").
PathBefore(a, b) ==
    \/ a[1] < b[1]
    \/ a[1] = b[1] /\ a[2] = ".lp" /\ b[2] = ".txt"

\* sorted(S)
RECURSIVE Sorted(_)
Sorted(S) ==
    IF S = {} THEN <<>>
    ELSE LET m == CHOOSE x \in S : \A y \in S \ {x} : PathBefore(x, y)
         IN  <<m>> \o Sorted(S \ {m})

\* next(i for i, ln in enumerate(ls) if ln.strip().lower() == "binary"),
\* counting from 1; 0 when there is none.
RECURSIVE FirstBinaryFrom(_, _)
FirstBinaryFrom(ls, i) ==
    IF i > Len(ls) THEN 0
    ELSE IF StripLower(ls[i]) = "binary" THEN i
    ELSE FirstBinaryFrom(ls, i + 1)

FirstBinary(ls) == FirstBinaryFrom(ls, 1)

\* The body of the loop over the snippets, up to merged.
Merged(base, at, text) ==
    LET lines0 == SplitLines(text)
        lines == IF lines0 # <<>> /\ StripLower(lines0[1]) = "subject to"
                 THEN Tail(lines0) ELSE lines0
        Keep(ln) == ~StripIsEmpty(ln) /\ ~StartsWithBackslash(ln)
        constraints == SelectSeq(lines, Keep)
        block == [i \in 1..Len(constraints) |-> WithNewline(constraints[i])]
                    \o <<NewlineOnly>>
    IN  SubSeq(base, 1, at - 1) \o block \o SubSeq(base, at, Len(base))

\* out_dir.mkdir(parents=True, exist_ok=True)
GenMkdir ==
    /\ gpc = "start"
    /\ gen_dir' = TRUE
    /\ gpc' = "check_base"
    /\ UNCHANGED <<base_lp, sbs_dir, base_lines, insert_at, snippet_files,
                   snippets_done, gen_out>>
    /\ UNCHANGED <<scan_vars, main_vars>>

\* if not base_path.is_file(): raise SystemExit
GenCheckBase ==
    /\ gpc = "check_base"
    /\ gpc' = IF base_lp.kind # "file" THEN "error" ELSE "check_dir"
    /\ UNCHANGED <<base_lp, sbs_dir, gen_dir, base_lines, insert_at,
                   snippet_files, snippets_done, gen_out>>
    /\ UNCHANGED <<scan_vars, main_vars>>

\* if not cons_dir.is_dir(): raise SystemExit
GenCheckDir ==
    /\ gpc = "check_dir"
    /\ gpc' = IF sbs_dir.kind # "dir" THEN "error" ELSE "read_base"
    /\ UNCHANGED <<base_lp, sbs_dir, gen_dir, base_lines, insert_at,
                   snippet_files, snippets_done, gen_out>>
    /\ UNCHANGED <<scan_vars, main_vars>>

\* base_lines = base_path.read_text().splitlines(keepends=True)
GenReadBase ==
    /\ gpc = "read_base"
    /\ base_lines' = base_lp.lines
    /\ gpc' = "find_binary"
    /\ UNCHANGED <<base_lp, sbs_dir, gen_dir, insert_at, snippet_files,
                   snippets_done, gen_out>>
    /\ UNCHANGED <<scan_vars, main_vars>>

\* insert_at = next(...); except StopIteration: raise SystemExit
GenFindBinary ==
    /\ gpc = "find_binary"
    /\ IF FirstBinary(base_lines) = 0
       THEN gpc' = "error" /\ UNCHANGED insert_at
       ELSE gpc' = "list" /\ insert_at' = FirstBinary(base_lines)
    /\ UNCHANGED <<base_lp, sbs_dir, gen_dir, base_lines, snippet_files,
                   snippets_done, gen_out>>
    /\ UNCHANGED <<scan_vars, main_vars>>

\* snippet_files = sorted(p for p in cons_dir.glob("*") if p.is_file());
\* if not snippet_files: raise SystemExit
GenListSnippets ==
    /\ gpc = "list"
    /\ snippet_files' = Sorted({e.name : e \in {d \in sbs_dir.entries : d.is_file}})
    /\ gpc' = IF snippet_files' = <<>> THEN "error" ELSE "loop"
    /\ UNCHANGED <<base_lp, sbs_dir, gen_dir, base_lines, insert_at,
                   snippets_done, gen_out>>
    /\ UNCHANGED <<scan_vars, main_vars>>

\* One turn of the loop: the next snippet is merged into a copy of the base
\* and written to out_dir / f"{snip.stem}.lp"; write_text replaces a file
\* of that name.
GenWrite ==
    /\ gpc = "loop"
    /\ snippets_done < Len(snippet_files)
    /\ LET snip == snippet_files[snippets_done + 1]
           merged == Merged(base_lines, insert_at, SnippetText(snip))
           out_file == Name(Stem(snip), ".lp")
       IN  gen_out' = {f \in gen_out : f.name # out_file}
                        \cup {[name |-> out_file, lines |-> merged]}
    /\ snippets_done' = snippets_done + 1
    /\ UNCHANGED <<gpc, base_lp, sbs_dir, gen_dir, base_lines, insert_at,
                   snippet_files>>
    /\ UNCHANGED <<scan_vars, main_vars>>

\* The loop is over and main returns.
GenDone ==
    /\ gpc = "loop"
    /\ snippets_done = Len(snippet_files)
    /\ gpc' = "done"
    /\ UNCHANGED <<base_lp, sbs_dir, gen_dir, base_lines, insert_at,
                   snippet_files, snippets_done, gen_out>>
    /\ UNCHANGED <<scan_vars, main_vars>>

InitGen ==
    /\ SetLocalsInit
    /\ f_read = <<>>
    /\ pc = "idle"
    /\ record = NoRecord
    /\ MainIdle
    /\ gpc = "start"
    /\ base_lp \in BaseLps
    /\ sbs_dir \in SbsDirs
    /\ gen_dir = FALSE
    /\ base_lines = <<>>
    /\ insert_at = 0
    /\ snippet_files = <<>>
    /\ snippets_done = 0
    /\ gen_out = {}

NextGen ==
    \/ GenMkdir
    \/ GenCheckBase
    \/ GenCheckDir
    \/ GenReadBase
    \/ GenFindBinary
    \/ GenListSnippets
    \/ GenWrite
    \/ GenDone

SpecGen == InitGen /\ [][NextGen]_vars

\* ======================================================= scanner claims

\* The lines of t on which the best-objective pattern matches, the
\* explored-summary pattern matches, the header pattern matches.
BestLines(t) == {i \in 1..Len(t) : RE_BEST_LINE(t[i]) # <<>>}
ExploredLines(t) == {i \in 1..Len(t) : RE_EXPLORED(t[i]) # <<>>}
HeaderLines(t) == {i \in 1..Len(t) : RE_TABLE_HEADER(t[i])}

\* C1: a transcript with the time-limit phrase on some line is returned with
\* status "Time limit reached", wherever the optimal phrase stands.
C1_TimeLimitWins ==
    (pc = "returned" /\ \E i \in 1..Len(f_read) : RE_TIME_LIMIT(f_read[i]))
        => record.status = "Time limit reached"

\* The optimal phrase before, on and after the line of the time-limit phrase.
C1_Witness ==
    /\ pc = "returned"
    /\ record.status = "Time limit reached"
    /\ \E i, j, k \in 1..Len(f_read) :
        /\ i < j /\ j < k
        /\ RE_OPTIMAL(f_read[i]) /\ ~RE_TIME_LIMIT(f_read[i])
        /\ RE_OPTIMAL(f_read[j]) /\ RE_TIME_LIMIT(f_read[j])
        /\ RE_OPTIMAL(f_read[k]) /\ ~RE_TIME_LIMIT(f_read[k])

\* C2: the returned gap is the gap token, with "%", of the last line matching
\* the best-objective shape; the returned nodes, simplex_iters,
\* runtime_seconds and work_units are the four values of the last line
\* matching the explored-summary shape.
C2_LastMatchWins ==
    pc = "returned" =>
        /\ BestLines(f_read) # {} =>
            record.gap = RE_BEST_LINE(f_read[Max(BestLines(f_read))])[3] \o "%"
        /\ ExploredLines(f_read) # {} =>
            <<record.nodes, record.simplex_iters, record.runtime_seconds,
              record.work_units>>
                = RE_EXPLORED(f_read[Max(ExploredLines(f_read))])

\* Two lines of each shape with different values.
C2_Witness ==
    /\ pc = "returned"
    /\ \E i, j \in BestLines(f_read) :
        i < j /\ RE_BEST_LINE(f_read[i])[3] # RE_BEST_LINE(f_read[j])[3]
    /\ \E i, j \in ExploredLines(f_read) :
        i < j /\ RE_EXPLORED(f_read[i]) # RE_EXPLORED(f_read[j])
    /\ record.gap # ""
    /\ record.nodes # ""

\* C3 as stated: every best-objective line with gap token 0.0000 gives the
\* returned objective, whatever other best-objective lines there are.
C3_AnyZeroGapLine ==
    pc = "returned" =>
        \A i \in BestLines(f_read) :
            RE_BEST_LINE(f_read[i])[3] = "0.0000"
                => record.objective = RE_BEST_LINE(f_read[i])[1]

\* C3 amended: when the last best-objective line has gap token 0.0000, the
\* returned objective is that line's objective token.
C3_LastZeroGapLine ==
    (pc = "returned" /\ BestLines(f_read) # {}) =>
        LET m == RE_BEST_LINE(f_read[Max(BestLines(f_read))])
        IN  m[3] = "0.0000" => record.objective = m[1]

\* Two zero-gap lines with different objectives; the last one is returned.
C3_Witness ==
    /\ pc = "returned"
    /\ \E i, j \in BestLines(f_read) :
        /\ i < j /\ j = Max(BestLines(f_read))
        /\ RE_BEST_LINE(f_read[i])[3] = "0.0000"
        /\ RE_BEST_LINE(f_read[j])[3] = "0.0000"
        /\ RE_BEST_LINE(f_read[i])[1] # RE_BEST_LINE(f_read[j])[1]
        /\ record.objective = RE_BEST_LINE(f_read[j])[1]

\* C4: when the last best-objective line has a gap token other than the text
\* 0.0000, the returned objective is empty.
C4_NonZeroGapClears ==
    (pc = "returned" /\ BestLines(f_read) # {}) =>
        (RE_BEST_LINE(f_read[Max(BestLines(f_read))])[3] # "0.0000"
            => record.objective = "")

\* A zero-gap line had set the objective before the last, non-zero one.
C4_Witness ==
    /\ pc = "returned"
    /\ record.objective = ""
    /\ \E i, j \in BestLines(f_read) :
        /\ i < j /\ j = Max(BestLines(f_read))
        /\ RE_BEST_LINE(f_read[i])[3] = "0.0000"
        /\ RE_BEST_LINE(f_read[j])[3] # "0.0000"

\* A line with the shape of a progress row; a blank or separator line.
IsProgressRow(ln) == RE_PROGRESS_ROW_START(Strip(ln))
IsBlankOrSeparator(ln) == \A i \in 1..Len(ln) : ln[i].k \in {"ws", "sep"}

\* The first progress-row-shaped line strictly after the first header line of
\* t, 0 when there is none.
FirstRowAfterHeader(t) ==
    IF HeaderLines(t) = {} THEN 0
    ELSE LET R == {i \in 1..Len(t) : i > Min(HeaderLines(t)) /\ IsProgressRow(t[i])}
         IN  IF R = {} THEN 0 ELSE Min(R)

\* The last percentage token of a line, empty when it has none.
LastPercent(ln) ==
    LET P == {i \in 1..Len(ln) : ln[i].k \in {"pct", "best"}}
    IN  IF P = {} THEN ""
        ELSE IF ln[Max(P)].k = "pct" THEN ln[Max(P)].v[1]
        ELSE ln[Max(P)].v[3] \o "%"

\* t without the lines at the positions in D.
RECURSIVE Without(_, _, _)
Without(t, D, i) ==
    IF i > Len(t) THEN <<>>
    ELSE (IF i \in D THEN <<>> ELSE <<t[i]>>) \o Without(t, D, i + 1)

\* t with the blank and separator lines between the first header and the
\* first row after it removed.
Squeezed(t) ==
    LET r == FirstRowAfterHeader(t)
    IN  IF r = 0 THEN t
        ELSE Without(t, {i \in 1..Len(t) : /\ i > Min(HeaderLines(t)) /\ i < r
                                          /\ IsBlankOrSeparator(t[i])}, 1)

\* C5: the returned initial_gap is the last percentage token of the first
\* progress-row-shaped line strictly after the first header line (empty if
\* that row has none or there is no such row), and it is the same for the
\* transcript without the blank and separator lines between header and row.
C5_InitialGapFirstRow ==
    pc = "returned" =>
        /\ record.initial_gap =
            (IF FirstRowAfterHeader(f_read) = 0 THEN ""
             ELSE LastPercent(f_read[FirstRowAfterHeader(f_read)]))
        /\ record.initial_gap =
            parse_out_file_stream(ScannedName, Squeezed(f_read)).initial_gap

\* A row-shaped header line with a percentage, a separator line, then the row.
C5_Witness ==
    /\ pc = "returned"
    /\ Len(f_read) = 3
    /\ RE_TABLE_HEADER(f_read[1]) /\ IsProgressRow(f_read[1])
    /\ RE_PERCENT(f_read[1]) # <<>>
    /\ IsBlankOrSeparator(f_read[2])
    /\ IsProgressRow(f_read[3]) /\ Len(RE_PERCENT(f_read[3])) = 2
    /\ record.initial_gap = "8.5%"

\* C6: once the first row after the header has been processed, no line
\* changes initial_gap, and the capture stays done.
C6_CapturedOnce ==
    [][captured_initial_gap =>
        (initial_gap' = initial_gap /\ captured_initial_gap')]_vars

\* The captured row had no percentage; a row with percentages came after it.
C6_Witness ==
    /\ captured_initial_gap
    /\ initial_gap = ""
    /\ Len(f_read) = 3
    /\ RE_TABLE_HEADER(f_read[1])
    /\ IsProgressRow(f_read[2]) /\ RE_PERCENT(f_read[2]) = <<>>
    /\ IsProgressRow(f_read[3]) /\ RE_PERCENT(f_read[3]) # <<>>

\* C7: after any prefix of the lines the four explored fields are all empty
\* or all four are the values of one explored-summary line read so far.
C7_ExploredAtomic ==
    \/ nodes = "" /\ simplex_iters = "" /\ runtime = "" /\ work_units = ""
    \/ \E i \in ExploredLines(f_read) :
        RE_EXPLORED(f_read[i]) = <<nodes, simplex_iters, runtime, work_units>>

\* Two different explored-summary lines read, the fields hold the second.
C7_Witness ==
    /\ pc = "scan"
    /\ \E i, j \in ExploredLines(f_read) :
        /\ i < j
        /\ RE_EXPLORED(f_read[i]) # RE_EXPLORED(f_read[j])
        /\ RE_EXPLORED(f_read[j]) = <<nodes, simplex_iters, runtime, work_units>>

\* The fields the scanner produces, and the records of all transcripts of at
\* most MaxProbeLines lines.
ScannerFields ==
    {"status", "objective", "gap", "work_units", "runtime_seconds",
     "initial_gap", "simplex_iters", "nodes"}
ExploredFields == {"work_units", "runtime_seconds", "simplex_iters", "nodes"}
FieldPairs == {p \in ScannerFields \X ScannerFields : p[1] # p[2]}
Transcripts == UNION {[1..n -> Lines] : n \in 0..MaxProbeLines}
Records == {parse_out_file_stream(ScannedName, t) : t \in Transcripts}

\* The ordered pairs <<a, b>> for which some transcript is returned with
\* field a present and field b absent.
IndependentPairs ==
    {p \in FieldPairs : \E r \in Records : r[p[1]] # "" /\ r[p[2]] = ""}

\* The pairs of fields where the presence of the first forces the second.
TiedPairs ==
    {p \in FieldPairs :
        \/ p[1] = "objective" /\ p[2] = "gap"
        \/ p[1] \in ExploredFields /\ p[2] \in ExploredFields}

\* C8 as stated: whatever record a scan returns, for every ordered pair of
\* distinct fields some transcript is returned with the first present and
\* the second absent.
C8_AllIndependent ==
    pc = "returned" => IndependentPairs = FieldPairs

\* C8 amended: a returned record never has the first field of a tied pair
\* present and the second absent (objective comes with gap; nodes,
\* simplex_iters, runtime_seconds and work_units come together), and every
\* other ordered pair of distinct fields is independent.
C8_IndependentExceptTied ==
    pc = "returned" =>
        /\ \A p \in TiedPairs : record[p[1]] # "" => record[p[2]] # ""
        /\ IndependentPairs = FieldPairs \ TiedPairs

\* A record with objective and gap and one with the explored fields alone.
C8_Witness ==
    /\ pc = "returned"
    /\ record.objective # "" /\ record.gap # ""
    /\ record.nodes # "" /\ record.work_units # ""
    /\ record.status = "" /\ record.initial_gap = ""

\* C12: in every phase the scan can end by returning, there is no error
\* state, and in the returned record every field whose pattern matched on no
\* line is empty: without a status phrase status is empty, without a
\* best-objective line gap and objective are, without an explored-summary
\* line the four explored fields are, and without a header (or without a row
\* after it) initial_gap is.
C12_ReturnsWithEmptyFields ==
    /\ pc \in {"scan", "returned"}
    /\ pc = "scan" => ENABLED Return
    /\ pc = "returned" =>
        /\ record.filename = ScannedName
        /\ (\A i \in 1..Len(f_read) :
                ~RE_TIME_LIMIT(f_read[i]) /\ ~RE_OPTIMAL(f_read[i]))
            => record.status = ""
        /\ BestLines(f_read) = {} => record.gap = "" /\ record.objective = ""
        /\ ExploredLines(f_read) = {} =>
            \A a \in ExploredFields : record[a] = ""
        /\ FirstRowAfterHeader(f_read) = 0 => record.initial_gap = ""

\* Three lines, none of them matching a summary pattern or the header, one
\* of them a progress row with percentages: the record is empty.
C12_Witness ==
    /\ pc = "returned"
    /\ Len(f_read) = 3
    /\ HeaderLines(f_read) = {} /\ BestLines(f_read) = {}
    /\ ExploredLines(f_read) = {}
    /\ \E i \in 1..Len(f_read) :
        IsProgressRow(f_read[i]) /\ RE_PERCENT(f_read[i]) # <<>>
    /\ \A a \in ScannerFields : record[a] = ""

\* The summary fields of the locals st, and st put in another phase of the
\* initial-gap part.
SummaryOf(st) ==
    <<st.status, st.gap, st.best_obj, st.nodes, st.simplex_iters, st.runtime,
      st.work_units>>
InPhase(st, saw, captured) ==
    [st EXCEPT !.saw_table_header = saw, !.captured_initial_gap = captured]

\* C14: what a line does to status, gap, objective and the four explored
\* fields does not depend on the phase of the initial-gap part: the step
\* taken on a line leaves them as the same line would in any other phase.
C14_SummaryNotSuppressed ==
    [][f_read' # f_read =>
        \A saw, captured \in BOOLEAN :
            SummaryOf(Locals') =
                SummaryOf(ScanLine(InPhase(Locals, saw, captured),
                                   f_read'[Len(f_read')]))]_vars

\* A header line that set status, then a row that set gap and was captured
\* as the first row in the same step.
C14_Witness ==
    /\ Len(f_read) = 2
    /\ RE_TABLE_HEADER(f_read[1]) /\ RE_TIME_LIMIT(f_read[1])
    /\ status = "Time limit reached"
    /\ IsProgressRow(f_read[2]) /\ RE_BEST_LINE(f_read[2]) # <<>>
    /\ captured_initial_gap
    /\ gap = "5.0000%" /\ initial_gap = "5.0000%"

\* C15: during a scan status moves only from unset to optimal, from unset to
\* time limit and from optimal to time limit; it becomes optimal only from
\* unset and on a line with the optimal phrase and without the time-limit
\* phrase, and becomes time limit only on a line with the time-limit phrase.
C15_StatusOnlyUp ==
    [][/\ <<status, status'>> \in
            { <<"", "">>, <<"", "Optimal solution found">>,
              <<"", "Time limit reached">>,
              <<"Optimal solution found", "Optimal solution found">>,
              <<"Optimal solution found", "Time limit reached">>,
              <<"Time limit reached", "Time limit reached">> }
       /\ status' # status =>
            /\ f_read' # f_read
            /\ status' = "Optimal solution found" =>
                /\ RE_OPTIMAL(f_read'[Len(f_read')])
                /\ ~RE_TIME_LIMIT(f_read'[Len(f_read')])
            /\ status' = "Time limit reached" =>
                RE_TIME_LIMIT(f_read'[Len(f_read')])]_vars

\* Unset, then optimal, then time limit, and a later optimal line left it.
C15_Witness ==
    /\ pc = "scan"
    /\ Len(f_read) = 3
    /\ RE_OPTIMAL(f_read[1]) /\ ~RE_TIME_LIMIT(f_read[1])
    /\ RE_TIME_LIMIT(f_read[2])
    /\ RE_OPTIMAL(f_read[3]) /\ ~RE_TIME_LIMIT(f_read[3])
    /\ status = "Time limit reached"

\* The phase of the initial-gap part, from its two flags.
Phase(saw, captured) ==
    IF captured THEN "DONE"
    ELSE IF saw THEN "AFTER_HEADER"
    ELSE "SEEKING_HEADER"

\* C16: the phase moves from SEEKING_HEADER to AFTER_HEADER only, and only
\* on a header line; from AFTER_HEADER to DONE only, and only on a line with
\* the shape of a progress row; it never leaves DONE; the two flags are never
\* captured without seen; and initial_gap is non-empty in phase DONE only.
C16_PhaseForward ==
    [][LET old == Phase(saw_table_header, captured_initial_gap)
           new == Phase(saw_table_header', captured_initial_gap')
       IN  /\ captured_initial_gap' => saw_table_header'
           /\ initial_gap' # "" => new = "DONE"
           /\ old = "DONE" => new = "DONE"
           /\ (old = "SEEKING_HEADER" /\ new # old) =>
                /\ new = "AFTER_HEADER"
                /\ f_read' # f_read
                /\ RE_TABLE_HEADER(f_read'[Len(f_read')])
           /\ (old = "AFTER_HEADER" /\ new # old) =>
                /\ new = "DONE"
                /\ f_read' # f_read
                /\ IsProgressRow(f_read'[Len(f_read')])]_vars

\* A header line with the shape of a progress row was read: the phase is
\* AFTER_HEADER and nothing is captured.
C16_Witness ==
    /\ Len(f_read) = 1
    /\ RE_TABLE_HEADER(f_read[1]) /\ IsProgressRow(f_read[1])
    /\ RE_PERCENT(f_read[1]) # <<>>
    /\ Phase(saw_table_header, captured_initial_gap) = "AFTER_HEADER"
    /\ initial_gap = ""

\* C17: after any prefix of the lines, a non-empty objective comes with the
\* gap 0.0000%, and both are the tokens of the most recent best-objective
\* line read.
C17_ObjectiveWithZeroGap ==
    best_obj # "" =>
        /\ gap = "0.0000%"
        /\ BestLines(f_read) # {}
        /\ LET m == RE_BEST_LINE(f_read[Max(BestLines(f_read))])
           IN  m[3] = "0.0000" /\ best_obj = m[1] /\ gap = m[3] \o "%"

\* Two zero-gap lines with different objectives read: the objective is the
\* one of the second.
C17_Witness ==
    /\ pc = "scan"
    /\ best_obj # ""
    /\ \E i, j \in BestLines(f_read) :
        /\ i < j /\ j = Max(BestLines(f_read))
        /\ RE_BEST_LINE(f_read[i])[3] = "0.0000"
        /\ RE_BEST_LINE(f_read[i])[1] # RE_BEST_LINE(f_read[j])[1]
        /\ best_obj = RE_BEST_LINE(f_read[j])[1]

\* ========================================================= driver claims

\* The names of the rows written after the header row.
RowNames == [i \in 1..(Len(written) - 1) |-> written[i + 1][1]]

\* C9: for a directory the rows are written in ascending filename order,
\* whatever order the enumeration returned.
C9_RowsAscending ==
    (mpc = "done" /\ in_path.kind = "dir") =>
        \A i, j \in 1..Len(RowNames) : i < j => RowNames[i][1] < RowNames[j][1]

\* in_path is not there, or is a directory without a transcript file.
FatalInput ==
    \/ in_path.kind = "missing"
    \/ /\ in_path.kind = "dir"
       /\ ~\E e \in in_path.entries : e.is_file /\ EndsWithOut(e.name)

\* C10: a run whose in_path does not exist or is a directory without an
\* eligible .out entry never gets past the test of the list, ends in the
\* error state only, and the output directory and file are never created,
\* opened or written.
C10_FatalBeforeOutput ==
    /\ FatalInput =>
        /\ mpc \in {"start", "check", "error"}
        /\ out_dir = FALSE /\ out_csv = "absent" /\ written = <<>>
    /\ mpc = "error" =>
        /\ FatalInput
        /\ out_dir = FALSE /\ out_csv = "absent" /\ written = <<>>

\* The error state for a directory that holds only ineligible entries.
C10_Witness ==
    /\ mpc = "error"
    /\ in_path.kind = "dir"
    /\ Cardinality(in_path.entries) = 2
    /\ out_dir = FALSE /\ out_csv = "absent" /\ written = <<>>

\* The names of the regular files of in_path whose name ends in .out.
EligibleNames == {e.name : e \in {x \in in_path.entries : x.is_file /\ EndsWithOut(x.name)}}

\* C13: after a successful run the table is the header row followed by one
\* row per enumerated transcript file, each file of the directory once; a
\* file with an all-empty record has its row like the others.
C13_OneRowPerFile ==
    mpc = "done" =>
        /\ out_csv = "closed"
        /\ written[1] = fieldnames
        /\ Len(written) = Len(files) + 1
        /\ \A i \in 1..Len(files) : written[i + 1][1] = files[i]
        /\ in_path.kind = "file" => files = <<in_path.name>>
        /\ in_path.kind = "dir" =>
            /\ Len(files) = Cardinality(EligibleNames)
            /\ {files[i] : i \in 1..Len(files)} = EligibleNames

\* Three files, the second with an all-empty record, the third with a
\* record that is not empty.
C13_Witness ==
    /\ mpc = "done"
    /\ Len(files) = 3
    /\ Len(written) = 4
    /\ \A c \in 2..Len(fieldnames) : written[3][c] = ""
    /\ written[4][2] # ""

\* ========================================================== batch claims

\* The row a file gets when it is scanned on its own, from fresh locals.
RowAlone(p) == Row(parse_out_file_stream(p, FileLines(p)))

\* C11: the record of a transcript depends on its lines only: whatever was
\* scanned before it, the record returned and the row written for a file are
\* those of scanning that file first, and two files with the same lines get
\* the same row apart from the file name.
C11_ScanIsPure ==
    /\ (mpc = "rows" /\ pc = "returned") =>
            record = parse_out_file_stream(CurrentFile, FileLines(CurrentFile))
    /\ \A i \in 1..(Len(written) - 1) : written[i + 1] = RowAlone(files[i])
    /\ \A i, j \in 1..(Len(written) - 1) :
            FileLines(files[i]) = FileLines(files[j]) =>
                \A c \in 2..Len(fieldnames) : written[i + 1][c] = written[j + 1][c]

\* The same transcript scanned first and third, with a transcript without
\* any match between them: the first scan left status, the phase and every
\* field set.
C11_Witness ==
    /\ mpc = "done"
    /\ Len(files) = 3
    /\ files[1] # files[3]
    /\ FileLines(files[1]) = FileLines(files[3])
    /\ written[2][2] = "Time limit reached"
    /\ \A c \in 2..Len(fieldnames) : written[2][c] # "" /\ written[3][c] = ""
    /\ \A c \in 2..Len(fieldnames) : written[4][c] = written[2][c]

\* ====================================================== generator claims

\* The snippet files of sbs_dir.
SnippetNames == {e.name : e \in {d \in sbs_dir.entries : d.is_file}}

\* The constraint lines of a snippet: its lines other than a "Subject To"
\* header on its first line, the blank lines and the comment lines, each
\* ending with a newline.
ConstraintLines(text) ==
    LET Keeps(i) == /\ text[i].kind \notin {"blank", "comment"}
                    /\ ~(i = 1 /\ text[i].kind = "subject to")
        RECURSIVE From(_)
        From(i) == IF i > Len(text) THEN <<>>
                   ELSE (IF Keeps(i) THEN <<[text[i] EXCEPT !.nl = TRUE]>>
                         ELSE <<>>) \o From(i + 1)
    IN  From(1)

\* lines is the base with the block put immediately before the first Binary
\* line of the base, every base line kept and in its order.
IsAugmented(lines, base, block) ==
    \E k \in 1..Len(base) :
        /\ base[k].kind = "binary"
        /\ \A j \in 1..(k - 1) : base[j].kind # "binary"
        /\ lines = SubSeq(base, 1, k - 1) \o block \o SubSeq(base, k, Len(base))

\* C18: after a successful run of gen_files_with_sbs the number of distinct
\* output files equals the number of snippet files of sbs_dir, and each
\* snippet has its output file: the base LP with the snippet's non-blank,
\* non-comment constraint lines and one blank line inserted immediately
\* before the first Binary line, every base line kept in its order.
C18_OneOutputPerSnippet ==
    gpc = "done" =>
        /\ Cardinality(gen_out) = Cardinality(SnippetNames)
        /\ \A snip \in SnippetNames :
              \E f \in gen_out :
                  /\ f.name = Name(Stem(snip), ".lp")
                  /\ IsAugmented(f.lines, base_lp.lines,
                                 ConstraintLines(SnippetText(snip))
                                    \o <<NewlineOnly>>)

====
